---- MODULE Spec2Model ----
(***************************************************************************)
(* Model of pigment-mixing-rs: the mix_* convenience functions (lib.rs),   *)
(* the dithering quantizer (quantize.rs) and the Pigment type (pigment.rs).*)
(*                                                                         *)
(* Real-valued (f32) quantities are exact rationals <<num, den>> in lowest *)
(* terms with den > 0.  The u32 word of the dither generator is modelled   *)
(* at U32_BITS bits and the f32 significand at three quarters of that      *)
(* (24 of 32 bits in the program), so that the integer -> f32 cast rounds  *)
(* exactly where the program's cast rounds.                                *)
(***************************************************************************)
EXTENDS Integers, Sequences, FiniteSets

VARIABLES seed, rng, draws, op, a, b, ratio, norm, lerp, real, d, out, panicked

vars == <<seed, rng, draws, op, a, b, ratio, norm, lerp, real, d, out, panicked>>

----------------------------------------------------------------------------
(* Bounds of the model *)

\* width of the model's u32 (32 in the program)
U32_BITS == 5

\* number of dithered calls a run makes
MaxDraws == 2

\* how many elements beyond PIGMENT_LEN an iterator handed to from_iter yields
IterExtra == 2

----------------------------------------------------------------------------
(* Exact rational arithmetic standing for f32 arithmetic *)

RECURSIVE GCD(_, _)
GCD(x, y) == IF y = 0 THEN x ELSE GCD(y, x % y)

Abs(x) == IF x < 0 THEN -x ELSE x

Pow2(n) == IF n <= 0 THEN 1 ELSE 2 ^ n

Rat(n, m) ==
    LET s == IF m < 0 THEN -1 ELSE 1
        g == GCD(Abs(n), Abs(m))
    IN  <<(s * n) \div g, (s * m) \div g>>

RInt(n) == <<n, 1>>

RAdd(x, y) ==
    LET g == GCD(x[2], y[2])
    IN  Rat(x[1] * (y[2] \div g) + y[1] * (x[2] \div g), x[2] * (y[2] \div g))

RNeg(x) == <<-x[1], x[2]>>

RSub(x, y) == RAdd(x, RNeg(y))

RMul(x, y) ==
    LET g1 == GCD(Abs(x[1]), y[2])
        g2 == GCD(Abs(y[1]), x[2])
    IN  IF x[1] = 0 \/ y[1] = 0 THEN <<0, 1>>
        ELSE <<(x[1] \div g1) * (y[1] \div g2), (x[2] \div g2) * (y[2] \div g1)>>

RLt(x, y) == RSub(x, y)[1] < 0

RLe(x, y) == RSub(x, y)[1] <= 0

RFloor(x) == x[1] \div x[2]

IsInteger(x) == x[2] = 1

Zero == RInt(0)

One == RInt(1)

Half == Rat(1, 2)

----------------------------------------------------------------------------
(* f32 primitives used by the code *)

\* f32::round: to the nearest integer, halfway cases away from zero
round(x) ==
    LET m == (2 * Abs(x[1]) + x[2]) \div (2 * x[2])
    IN  RInt(IF x[1] < 0 THEN -m ELSE m)

\* truncation toward zero, the first half of a float -> integer `as` cast
trunc(x) == IF x[1] < 0 THEN -(Abs(x[1]) \div x[2]) ELSE x[1] \div x[2]

\* `x as uN`: truncates toward zero and saturates at the type's range
as_uint(x, tmax) ==
    LET t == trunc(x)
    IN  IF t < 0 THEN 0 ELSE IF t > tmax THEN tmax ELSE t

\* significand width of the model's f32: 24 of 32 bits in the program
F32_MANT == (3 * U32_BITS) \div 4

RECURSIVE BitLen(_)
BitLen(n) == IF n = 0 THEN 0 ELSE 1 + BitLen(n \div 2)

\* `n as f32` for an unsigned integer: round to F32_MANT significant bits,
\* ties to even
as_f32(n) ==
    LET e    == BitLen(n) - F32_MANT
        unit == Pow2(e)
        q    == n \div unit
        r    == n % unit
    IN  IF e <= 0 THEN n
        ELSE IF 2 * r > unit \/ (2 * r = unit /\ q % 2 = 1)
             THEN (q + 1) * unit
             ELSE q * unit

----------------------------------------------------------------------------
(* lib.rs: clamp *)

clamp_no_upper(value, min, max) ==
    IF RLt(value, min) THEN min ELSE value

clamp_none(value, min, max) == value

clamp(value, min, max) ==
    IF RLt(value, min) THEN min
    ELSE IF RLt(max, value) THEN max
    ELSE value

----------------------------------------------------------------------------
(* The dither generator (quantize.rs: type Rng = WyRand) *)

u32_MIN == 0

u32_MAX == Pow2(U32_BITS) - 1

RngStates == 0 .. u32_MAX

\* one step of the generator: a full-period walk over its states
rng_step(s) == (5 * s + 3) % Pow2(U32_BITS)

\* Rng::generate_range(lo..=hi): advances the generator once and maps its
\* word uniformly onto lo..hi
generate_range(s, lo, hi) ==
    LET s1 == rng_step(s)
    IN  [value |-> lo + (s1 * (hi - lo + 1)) \div Pow2(U32_BITS), rng |-> s1]

----------------------------------------------------------------------------
(* quantize.rs *)

generate_random_number_no_advance(s) ==
    LET r == generate_range(s, u32_MIN \div 2, u32_MAX \div 2)
    IN  [value |-> Rat(as_f32(r.value), as_f32(u32_MAX)), rng |-> s]

generate_random_number(s) ==
    LET r == generate_range(s, u32_MIN \div 2, u32_MAX \div 2)
    IN  [value |-> Rat(as_f32(r.value), as_f32(u32_MAX)), rng |-> r.rng]

quantize_triplet_three_draws(value, one, min, max, s) ==
    LET r1 == generate_random_number(s)
        r2 == generate_random_number(r1.rng)
        r3 == generate_random_number(r2.rng)
    IN  [out |-> << clamp(round(RAdd(RMul(one, value[1]), r1.value)), min, max),
                    clamp(round(RAdd(RMul(one, value[2]), r2.value)), min, max),
                    clamp(round(RAdd(RMul(one, value[3]), r3.value)), min, max) >>,
         random |-> r1.value,
         rng |-> r3.rng]

quantize_triplet(value, one, min, max, s) ==
    LET r      == generate_random_number(s)
        random == r.value
    IN  [out |-> << clamp(round(RAdd(RMul(one, value[1]), random)), min, max),
                    clamp(round(RAdd(RMul(one, value[2]), random)), min, max),
                    clamp(round(RAdd(RMul(one, value[3]), random)), min, max) >>,
         random |-> random,
         rng |-> r.rng]

----------------------------------------------------------------------------
(* The gamma collaborator (colstodian): encoded sRGB <-> linear sRGB.      *)
(* A monotone convex transfer curve with an exact inverse, extended        *)
(* linearly below 0 and above 1.                                           *)

linearize_channel(x) ==
    IF RLe(x, Half) THEN RMul(x, Half)
    ELSE IF RLe(x, Rat(3, 4)) THEN RSub(x, Rat(1, 4))
    ELSE RSub(RMul(RInt(2), x), One)

encode_channel(y) ==
    IF RLe(y, Rat(1, 4)) THEN RMul(RInt(2), y)
    ELSE IF RLe(y, Half) THEN RAdd(y, Rat(1, 4))
    ELSE RMul(RAdd(y, One), Half)

\* Color::<EncodedSrgb, _>::linearize
linearize(c) == [i \in 1 .. Len(c) |-> linearize_channel(c[i])]

\* Color::<LinearSrgb, _>::convert_to::<EncodedSrgb>
convert_to_EncodedSrgb(c) == [i \in 1 .. Len(c) |-> encode_channel(c[i])]

----------------------------------------------------------------------------
(* The pigment transform oracle (mixbox-sys): forward and inverse latent   *)
(* transform with the round-trip property, and the fused two-colour lerp   *)
(* that interpolates in latent space.                                      *)

PIGMENT_LEN == 7

mixbox_srgb32f_to_latent(r, g, bl) ==
    << r, g, bl, RAdd(r, g), RAdd(g, bl), RAdd(bl, r), RAdd(RAdd(r, g), bl) >>

mixbox_latent_to_srgb32f(p) ==
    << RSub(p[7], p[5]), RSub(p[7], p[6]), RSub(p[7], p[4]) >>

mixbox_lerp_srgb32f(ca, cb, t) ==
    LET la == mixbox_srgb32f_to_latent(ca[1], ca[2], ca[3])
        lb == mixbox_srgb32f_to_latent(cb[1], cb[2], cb[3])
    IN  mixbox_latent_to_srgb32f(
            [i \in 1 .. PIGMENT_LEN |->
                RAdd(RMul(RSub(One, t), la[i]), RMul(t, lb[i]))])

----------------------------------------------------------------------------
(* lib.rs: the mix_* family *)

u8_MAX == 255

u16_MAX == 65535

\* `c as f32 / MAX as f32` on the three channels of an integer colour
Normalize(c, tmax) == [i \in 1 .. Len(c) |-> Rat(c[i], tmax)]

\* `(x * MAX as f32 + 0.5) as uN`
round_narrow_wrapping(x, tmax) ==
    RFloor(RAdd(RMul(x, RInt(tmax)), Half)) % (tmax + 1)

round_narrow(x, tmax) ==
    as_uint(RAdd(RMul(x, RInt(tmax)), Half), tmax)

mix_linear_srgb_swapped(srgb_a, srgb_b, t) == mixbox_lerp_srgb32f(srgb_b, srgb_a, t)

mix_linear_srgb(srgb_a, srgb_b, t) == mixbox_lerp_srgb32f(srgb_a, srgb_b, t)

mix_srgb_u8(srgb_a, srgb_b, t) ==
    LET na       == Normalize(srgb_a, u8_MAX)
        nb       == Normalize(srgb_b, u8_MAX)
        a_linear == linearize(na)
        b_linear == linearize(nb)
        result   == convert_to_EncodedSrgb(mix_linear_srgb(a_linear, b_linear, t))
    IN  [norm |-> na \o nb,
         oracle |-> <<a_linear, b_linear, t>>,
         real |-> result,
         out |-> [i \in 1 .. 3 |-> round_narrow(result[i], u8_MAX)]]

mix_srgb_u8_dither(srgb_a, srgb_b, t, s) ==
    LET na       == Normalize(srgb_a, u8_MAX)
        nb       == Normalize(srgb_b, u8_MAX)
        a_linear == linearize(na)
        b_linear == linearize(nb)
        result   == convert_to_EncodedSrgb(mix_linear_srgb(a_linear, b_linear, t))
        q        == quantize_triplet(result, RInt(u8_MAX), Zero, RInt(u8_MAX), s)
    IN  [norm |-> na \o nb,
         oracle |-> <<a_linear, b_linear, t>>,
         real |-> result,
         random |-> q.random,
         rng |-> q.rng,
         out |-> [i \in 1 .. 3 |-> as_uint(q.out[i], u8_MAX)]]

mix_linear_srgb_u16(srgb_a, srgb_b, t) ==
    LET a_linear == Normalize(srgb_a, u16_MAX)
        b_linear == Normalize(srgb_b, u16_MAX)
        result   == mix_linear_srgb(a_linear, b_linear, t)
    IN  [norm |-> a_linear \o b_linear,
         oracle |-> <<a_linear, b_linear, t>>,
         real |-> result,
         out |-> [i \in 1 .. 3 |-> round_narrow(result[i], u16_MAX)]]

\* takes and returns [u8; 3]; normalizes and quantizes with u16::MAX
mix_srgb_u16_dither(srgb_a, srgb_b, t, s) ==
    LET a_linear == Normalize(srgb_a, u16_MAX)
        b_linear == Normalize(srgb_b, u16_MAX)
        result   == mix_linear_srgb(a_linear, b_linear, t)
        q        == quantize_triplet(result, RInt(u16_MAX), Zero, RInt(u16_MAX), s)
    IN  [norm |-> a_linear \o b_linear,
         oracle |-> <<a_linear, b_linear, t>>,
         real |-> result,
         random |-> q.random,
         rng |-> q.rng,
         out |-> [i \in 1 .. 3 |-> as_uint(q.out[i], u8_MAX)]]

----------------------------------------------------------------------------
(* pigment.rs: the Pigment type, a PIGMENT_LEN-vector of latents *)

Min(x, y) == IF x < y THEN x ELSE y

Pigment_from_srgb_u8(r, g, bl) ==
    LET n           == Normalize(<<r, g, bl>>, u8_MAX)
        srgb_linear == linearize(n)
    IN  [norm |-> n,
         pigment |-> mixbox_srgb32f_to_latent(srgb_linear[1], srgb_linear[2],
                                              srgb_linear[3])]

\* divides the u16 channels by u8::MAX
Pigment_from_linear_srgb_u16(r, g, bl) ==
    LET n == Normalize(<<r, g, bl>>, u8_MAX)
    IN  [norm |-> n,
         pigment |-> mixbox_srgb32f_to_latent(n[1], n[2], n[3])]

Pigment_from_srgb_u16(r, g, bl) ==
    LET n           == Normalize(<<r, g, bl>>, u16_MAX)
        srgb_linear == linearize(n)
    IN  [norm |-> n,
         pigment |-> mixbox_srgb32f_to_latent(srgb_linear[1], srgb_linear[2],
                                              srgb_linear[3])]

\* zip, map, collect into an ArrayVec of capacity PIGMENT_LEN
Pigment_from_mix(pa, pb, t) ==
    LET r == clamp(t, Zero, One)
    IN  [i \in 1 .. Min(Min(Len(pa), Len(pb)), PIGMENT_LEN) |->
            RAdd(RMul(pa[i], RSub(One, r)), RMul(pb[i], r))]

\* the for_each of Pigment::mix: updates the receiver one slot at a time
RECURSIVE mix_for_each(_, _, _, _)
mix_for_each(self, pb, r, i) ==
    IF i > Min(Len(self), Len(pb)) THEN self
    ELSE mix_for_each(
            [self EXCEPT ![i] = RAdd(RMul(self[i], RSub(One, r)), RMul(pb[i], r))],
            pb, r, i + 1)

\* collects without the length check of into_inner().unwrap()
Pigment_from_iter_unchecked(iter) ==
    [panicked |-> FALSE,
     pigment |-> [i \in 1 .. Min(Len(iter), PIGMENT_LEN) |-> RInt(as_f32(iter[i]))]]

\* FromIterator: take(PIGMENT_LEN), map(as_), collect into an ArrayVec, then
\* into_inner().unwrap(), which panics unless the ArrayVec is full
Pigment_from_iter(iter) ==
    LET result == [i \in 1 .. Min(Len(iter), PIGMENT_LEN) |-> RInt(as_f32(iter[i]))]
    IN  IF Len(result) = PIGMENT_LEN
        THEN [panicked |-> FALSE, pigment |-> result]
        ELSE [panicked |-> TRUE, pigment |-> << >>]

Pigment_mix_unclamped(self, pb, t) == mix_for_each(self, pb, t, 1)

Pigment_mix(self, pb, t) == mix_for_each(self, pb, clamp(t, Zero, One), 1)

----------------------------------------------------------------------------
(* Inputs of the calls *)

Colors8 == { <<0, 0, 0>>, <<252, 211, 0>>, <<0, 0, 96>>, <<255, 255, 255>> }

Pairs8 ==
    { << <<252, 211, 0>>, <<0, 0, 96>> >>,
      << <<0, 0, 0>>, <<255, 255, 255>> >>,
      << <<255, 255, 255>>, <<255, 255, 255>> >> }

Colors16 == { <<0, 0, 0>>, <<65535, 255, 256>>, <<1, 32768, 65535>> }

Pairs16 ==
    { << <<65535, 255, 256>>, <<1, 32768, 65535>> >>,
      << <<0, 0, 0>>, <<65535, 65535, 65535>> >>,
      << <<65535, 65535, 65535>>, <<65535, 65535, 65535>> >> }

Ratios == { Rat(-1, 2), Zero, Rat(1, 4), One, Rat(3, 2) }

\* real-valued triplets handed to quantize_triplet directly
QValues ==
    { << Rat(-1, 4), Rat(1, 3), Rat(5, 4) >>,
      << Half, Half, Half >>,
      << Rat(100, 255), Rat(100, 255), Rat(100, 255) >>,
      << Zero, Rat(401, 1020), One >> }

\* (one, min, max) as the callers pass them
QScales ==
    { << RInt(u8_MAX), Zero, RInt(u8_MAX) >>,
      << RInt(u16_MAX), Zero, RInt(u16_MAX) >> }

\* iterators of small unsigned integers, of every length up to
\* PIGMENT_LEN + IterExtra
Iterators ==
    { [i \in 1 .. n |-> (base + i) % 8] :
      n \in 0 .. PIGMENT_LEN + IterExtra, base \in {0, 3} }

PigmentPairs ==
    { << Pigment_from_srgb_u8(252, 211, 0).pigment,
         Pigment_from_srgb_u8(0, 0, 96).pigment >>,
      << Pigment_from_srgb_u16(65535, 255, 256).pigment,
         Pigment_from_srgb_u8(252, 211, 0).pigment >>,
      << Pigment_from_srgb_u8(0, 0, 96).pigment,
         Pigment_from_srgb_u8(0, 0, 96).pigment >> }

----------------------------------------------------------------------------
(* The calls a caller can make, each with what the function computes *)

quantize_triplet_calls ==
    { [value |-> v, scale |-> sc, rng |-> s,
       res |-> quantize_triplet(v, sc[1], sc[2], sc[3], s)] :
      v \in QValues, sc \in QScales, s \in RngStates }

mix_srgb_u8_calls ==
    { [a |-> p[1], b |-> p[2], ratio |-> t, res |-> mix_srgb_u8(p[1], p[2], t)] :
      p \in Pairs8, t \in Ratios }

mix_srgb_u8_dither_calls ==
    { [a |-> p[1], b |-> p[2], ratio |-> t, rng |-> s,
       res |-> mix_srgb_u8_dither(p[1], p[2], t, s)] :
      p \in Pairs8, t \in Ratios, s \in RngStates }

mix_linear_srgb_u16_calls ==
    { [a |-> p[1], b |-> p[2], ratio |-> t,
       res |-> mix_linear_srgb_u16(p[1], p[2], t)] :
      p \in Pairs16, t \in Ratios }

\* the parameters are [u8; 3]
mix_srgb_u16_dither_calls ==
    { [a |-> p[1], b |-> p[2], ratio |-> t, rng |-> s,
       res |-> mix_srgb_u16_dither(p[1], p[2], t, s)] :
      p \in Pairs8, t \in Ratios, s \in RngStates }

from_srgb_u8_calls ==
    { [a |-> c, res |-> Pigment_from_srgb_u8(c[1], c[2], c[3])] : c \in Colors8 }

from_linear_srgb_u16_calls ==
    { [a |-> c, res |-> Pigment_from_linear_srgb_u16(c[1], c[2], c[3])] :
      c \in Colors16 }

from_srgb_u16_calls ==
    { [a |-> c, res |-> Pigment_from_srgb_u16(c[1], c[2], c[3])] : c \in Colors16 }

from_mix_calls ==
    { [a |-> p[1], b |-> p[2], ratio |-> t, res |-> Pigment_from_mix(p[1], p[2], t)] :
      p \in PigmentPairs, t \in Ratios }

\* a.mix(b, ratio): a is the receiver before the call, res the receiver after
mix_calls ==
    { [a |-> p[1], b |-> p[2], ratio |-> t, res |-> Pigment_mix(p[1], p[2], t)] :
      p \in PigmentPairs, t \in Ratios }

from_iter_calls ==
    { [a |-> it, res |-> Pigment_from_iter(it)] : it \in Iterators }

----------------------------------------------------------------------------
(* The state machine: a caller owning one generator makes calls *)

NoTriplet == << >>

Init ==
    /\ seed \in RngStates
    /\ rng = seed
    /\ draws = 0
    /\ op = "none"
    /\ a = NoTriplet
    /\ b = NoTriplet
    /\ ratio = Zero
    /\ norm = NoTriplet
    /\ lerp = NoTriplet
    /\ real = NoTriplet
    /\ d = Zero
    /\ out = NoTriplet
    /\ panicked = FALSE

QuantizeTriplet ==
    /\ draws < MaxDraws
    /\ \E c \in quantize_triplet_calls :
          /\ c.rng = rng
          /\ op' = "quantize_triplet"
          /\ a' = c.value
          /\ b' = c.scale
          /\ real' = c.value
          /\ d' = c.res.random
          /\ out' = c.res.out
          /\ rng' = c.res.rng
    /\ ratio' = Zero
    /\ norm' = NoTriplet
    /\ lerp' = NoTriplet
    /\ draws' = draws + 1
    /\ panicked' = FALSE
    /\ UNCHANGED seed

MixSrgbU8 ==
    /\ \E c \in mix_srgb_u8_calls :
          /\ op' = "mix_srgb_u8"
          /\ a' = c.a
          /\ b' = c.b
          /\ ratio' = c.ratio
          /\ norm' = c.res.norm
          /\ lerp' = c.res.oracle
          /\ real' = c.res.real
          /\ out' = c.res.out
    /\ panicked' = FALSE
    /\ UNCHANGED <<seed, rng, draws, d>>

MixSrgbU8Dither ==
    /\ draws < MaxDraws
    /\ \E c \in mix_srgb_u8_dither_calls :
          /\ c.rng = rng
          /\ op' = "mix_srgb_u8_dither"
          /\ a' = c.a
          /\ b' = c.b
          /\ ratio' = c.ratio
          /\ norm' = c.res.norm
          /\ lerp' = c.res.oracle
          /\ real' = c.res.real
          /\ d' = c.res.random
          /\ out' = c.res.out
          /\ rng' = c.res.rng
    /\ draws' = draws + 1
    /\ panicked' = FALSE
    /\ UNCHANGED seed

MixLinearSrgbU16 ==
    /\ \E c \in mix_linear_srgb_u16_calls :
          /\ op' = "mix_linear_srgb_u16"
          /\ a' = c.a
          /\ b' = c.b
          /\ ratio' = c.ratio
          /\ norm' = c.res.norm
          /\ lerp' = c.res.oracle
          /\ real' = c.res.real
          /\ out' = c.res.out
    /\ panicked' = FALSE
    /\ UNCHANGED <<seed, rng, draws, d>>

MixSrgbU16Dither ==
    /\ draws < MaxDraws
    /\ \E c \in mix_srgb_u16_dither_calls :
          /\ c.rng = rng
          /\ op' = "mix_srgb_u16_dither"
          /\ a' = c.a
          /\ b' = c.b
          /\ ratio' = c.ratio
          /\ norm' = c.res.norm
          /\ lerp' = c.res.oracle
          /\ real' = c.res.real
          /\ d' = c.res.random
          /\ out' = c.res.out
          /\ rng' = c.res.rng
    /\ draws' = draws + 1
    /\ panicked' = FALSE
    /\ UNCHANGED seed

FromSrgbU8 ==
    /\ \E c \in from_srgb_u8_calls :
          /\ op' = "from_srgb_u8"
          /\ a' = c.a
          /\ norm' = c.res.norm
          /\ out' = c.res.pigment
    /\ b' = NoTriplet
    /\ lerp' = NoTriplet
    /\ ratio' = Zero
    /\ real' = NoTriplet
    /\ panicked' = FALSE
    /\ UNCHANGED <<seed, rng, draws, d>>

FromLinearSrgbU16 ==
    /\ \E c \in from_linear_srgb_u16_calls :
          /\ op' = "from_linear_srgb_u16"
          /\ a' = c.a
          /\ norm' = c.res.norm
          /\ out' = c.res.pigment
    /\ b' = NoTriplet
    /\ lerp' = NoTriplet
    /\ ratio' = Zero
    /\ real' = NoTriplet
    /\ panicked' = FALSE
    /\ UNCHANGED <<seed, rng, draws, d>>

FromSrgbU16 ==
    /\ \E c \in from_srgb_u16_calls :
          /\ op' = "from_srgb_u16"
          /\ a' = c.a
          /\ norm' = c.res.norm
          /\ out' = c.res.pigment
    /\ b' = NoTriplet
    /\ lerp' = NoTriplet
    /\ ratio' = Zero
    /\ real' = NoTriplet
    /\ panicked' = FALSE
    /\ UNCHANGED <<seed, rng, draws, d>>

FromMix ==
    /\ \E c \in from_mix_calls :
          /\ op' = "from_mix"
          /\ a' = c.a
          /\ b' = c.b
          /\ ratio' = c.ratio
          /\ out' = c.res
    /\ norm' = NoTriplet
    /\ lerp' = NoTriplet
    /\ real' = NoTriplet
    /\ panicked' = FALSE
    /\ UNCHANGED <<seed, rng, draws, d>>

Mix ==
    /\ \E c \in mix_calls :
          /\ op' = "mix"
          /\ a' = c.a
          /\ b' = c.b
          /\ ratio' = c.ratio
          /\ out' = c.res
    /\ norm' = NoTriplet
    /\ lerp' = NoTriplet
    /\ real' = NoTriplet
    /\ panicked' = FALSE
    /\ UNCHANGED <<seed, rng, draws, d>>

\* iter.collect::<Pigment>(): a panic builds no Pigment
FromIter ==
    /\ \E c \in from_iter_calls :
          /\ op' = "from_iter"
          /\ a' = c.a
          /\ out' = c.res.pigment
          /\ panicked' = c.res.panicked
    /\ b' = NoTriplet
    /\ lerp' = NoTriplet
    /\ ratio' = Zero
    /\ norm' = NoTriplet
    /\ real' = NoTriplet
    /\ UNCHANGED <<seed, rng, draws, d>>

Next ==
    \/ QuantizeTriplet
    \/ MixSrgbU8
    \/ MixSrgbU8Dither
    \/ MixLinearSrgbU16
    \/ MixSrgbU16Dither
    \/ FromSrgbU8
    \/ FromLinearSrgbU16
    \/ FromSrgbU16
    \/ FromMix
    \/ Mix
    \/ FromIter

Spec == Init /\ [][Next]_vars

----------------------------------------------------------------------------
(* Properties *)

Dithered == {"quantize_triplet", "mix_srgb_u8_dither", "mix_srgb_u16_dither"}

\* C1: the dither offset drawn by quantize_triplet lies in [-0.5, 0.5): after
\* every dithered call the offset d it drew satisfies -1/2 <= d < 1/2.
C1_DitherOffsetInHalfOpenRange ==
    op \in Dithered => (RLe(RNeg(Half), d) /\ RLt(d, Half))

\* C2: each channel quantize_triplet returns is an integer-valued number
\* between min and max, whatever the input triplet, scale and generator state.
C2_QuantizerOutputClamped ==
    op = "quantize_triplet" =>
        \A i \in 1 .. 3 :
            /\ IsInteger(out[i])
            /\ RLe(b[2], out[i])
            /\ RLe(out[i], b[3])

\* C2 witness: a call with a channel below 0 and a channel above 1, returned
\* as min and max.
C2_Witness ==
    /\ op = "quantize_triplet"
    /\ RLt(a[1], Zero) /\ out[1] = b[2]
    /\ RLt(One, a[3]) /\ out[3] = b[3]

\* the ratio as the claims state its clamping
ClampedRatio(t) == IF RLt(t, Zero) THEN Zero ELSE IF RLt(One, t) THEN One ELSE t

\* C3: Pigment::from_mix returns exactly PIGMENT_LEN components, component i
\* being a[i]*(1-r) + b[i]*r for the ratio r clamped to [0,1]; a ratio below 0
\* gives a and a ratio above 1 gives b.
C3_FromMixClampsAndLerps ==
    op = "from_mix" =>
        /\ Len(out) = PIGMENT_LEN
        /\ \A i \in 1 .. PIGMENT_LEN :
              out[i] = RAdd(RMul(a[i], RSub(One, ClampedRatio(ratio))),
                            RMul(b[i], ClampedRatio(ratio)))
        /\ (RLt(ratio, Zero) => out = a)
        /\ (RLt(One, ratio) => out = b)

\* C3 witness: from_mix of two different pigments with a ratio below 0
\* returned the first.
C3_Witness ==
    /\ op = "from_mix"
    /\ RLt(ratio, Zero)
    /\ a # b
    /\ out = a

\* the maximum of the integer type an entry point declares for its channels
ParamMax(o) ==
    IF o \in {"mix_srgb_u8", "mix_srgb_u8_dither", "mix_srgb_u16_dither",
              "from_srgb_u8"}
    THEN u8_MAX ELSE u16_MAX

Normalizing ==
    {"mix_srgb_u8", "mix_srgb_u8_dither", "mix_linear_srgb_u16",
     "mix_srgb_u16_dither", "from_srgb_u8", "from_srgb_u16",
     "from_linear_srgb_u16"}

\* C4: every entry point taking integer channels hands values in [0,1] to the
\* gamma function or the oracle, and the maximum integer of its channel type
\* is handed over as exactly 1.
C4_NormalizedByTypeMax ==
    op \in Normalizing =>
        \A i \in 1 .. Len(norm) :
            /\ RLe(Zero, norm[i])
            /\ RLe(norm[i], One)
            /\ ((a \o b)[i] = ParamMax(op) => norm[i] = One)

\* the quantizer's output for the real value x at scale tmax with offset e
QuantizerOutput(x, tmax, e) ==
    LET v == round(RAdd(RMul(RInt(tmax), x), e))
    IN  IF RLt(v, Zero) THEN 0 ELSE IF RLt(RInt(tmax), v) THEN tmax ELSE v[1]

\* C5: a dithered mix hands the oracle what the plain mix of its width hands
\* it for the same inputs, and returns the quantizer's output (at that width)
\* for the real-valued triplet the plain mix rounds.
C5_DitherIsPlainButNarrowing ==
    /\ op = "mix_srgb_u8_dither" =>
          LET p == mix_srgb_u8(a, b, ratio)
          IN  /\ lerp = p.oracle
              /\ real = p.real
              /\ \A i \in 1 .. 3 : out[i] = QuantizerOutput(p.real[i], u8_MAX, d)
    /\ op = "mix_srgb_u16_dither" =>
          LET p == mix_linear_srgb_u16(a, b, ratio)
          IN  /\ lerp = p.oracle
              /\ real = p.real
              /\ \A i \in 1 .. 3 : out[i] = QuantizerOutput(p.real[i], u16_MAX, d)

\* the outputs of channel i of quantize_triplet, one per generator state
OutputsOverDraws(v, sc, i) ==
    [s \in RngStates |-> quantize_triplet(v, sc[1], sc[2], sc[3], s).out[i][1]]

RECURSIVE SumUpTo(_, _)
SumUpTo(f, s) == IF s < 0 THEN 0 ELSE f[s] + SumUpTo(f, s - 1)

\* C6: for an in-range input channel the mean of the quantizer's outputs over
\* all equally likely generator states equals value * one.
C6_DitherUnbiased ==
    op = "quantize_triplet" =>
        \A i \in 1 .. 3 :
            (RLe(Zero, a[i]) /\ RLe(a[i], One)) =>
                RInt(SumUpTo(OutputsOverDraws(a, b, i), u32_MAX))
                    = RMul(RInt(Cardinality(RngStates)), RMul(b[1], a[i]))

Plain == {"mix_srgb_u8", "mix_linear_srgb_u16"}

OutMax(o) == IF o = "mix_srgb_u8" THEN u8_MAX ELSE u16_MAX

\* C7: each channel a plain mix returns is clamp(floor(x*MAX + 0.5), 0, MAX)
\* for the real result x, also for x < 0 and x > 1; it never wraps.
C7_PlainMixRoundsAndClamps ==
    op \in Plain =>
        \A i \in 1 .. 3 :
            LET f == RFloor(RAdd(RMul(real[i], RInt(OutMax(op))), Half))
            IN  out[i] = IF f < 0 THEN 0
                         ELSE IF f > OutMax(op) THEN OutMax(op) ELSE f

\* C7 witness: a plain mix whose real result has a channel below 0, returned
\* as 0, and a channel above 1, returned as MAX.
C7_Witness ==
    /\ op \in Plain
    /\ \E i \in 1 .. 3 : RLt(real[i], Zero) /\ out[i] = 0
    /\ \E i \in 1 .. 3 : RLt(One, real[i]) /\ out[i] = OutMax(op)

\* C8: after a.mix(b, ratio) the receiver equals, component by component,
\* what from_mix(a, b, ratio) returns for the receiver a before the call.
C8_MixAgreesWithFromMix ==
    op = "mix" => out = Pigment_from_mix(a, b, ratio)

\* C8 witness: a.mix(b, ratio) with a ratio above 1 and b different from a
\* left the receiver equal to b.
C8_Witness ==
    /\ op = "mix"
    /\ RLt(One, ratio)
    /\ a # b
    /\ out = b

C10_OneDrawPerTriplet ==
    [][(op' = "quantize_triplet" /\ draws' = draws + 1) =>
          /\ rng' = rng_step(rng)
          /\ ((a'[1] = a'[2] /\ a'[2] = a'[3]) =>
                 (out'[1] = out'[2] /\ out'[2] = out'[3]))]_vars

\* C10 witness: a quantize_triplet call on three equal channels whose draw
\* moved the result off the plainly rounded value.
C10_Witness ==
    /\ op = "quantize_triplet"
    /\ a[1] = a[2] /\ a[2] = a[3]
    /\ out[1] # round(RMul(b[1], a[1]))
    /\ out[1] = out[3]

\* the generator state n draws after state s
RECURSIVE StepN(_, _)
StepN(s, n) == IF n <= 0 THEN s ELSE rng_step(StepN(s, n - 1))

\* C11: the generator is advanced only by dithered calls, by one draw each:
\* it always is in the state reached by as many draws from its seed as
\* dithered calls were made, plain mixes and Pigment operations leave it
\* unchanged, and the offset a dithered call draws is fixed by the seed and
\* the number of dithered calls before it.
C11_GeneratorAdvancedOnlyByDither ==
    [][/\ rng' = StepN(seed', draws')
       /\ seed' = seed
       /\ (op' \in Dithered =>
              /\ draws' = draws + 1
              /\ rng' = rng_step(rng)
              /\ d' = generate_random_number(StepN(seed, draws)).value)
       /\ (op' \notin Dithered => (rng' = rng /\ draws' = draws /\ d' = d))]_vars

\* C11 witness: a plain mix or Pigment operation made after two dithered
\* calls found and left the generator two draws from its seed.
C11_Witness ==
    /\ draws = 2
    /\ op \notin Dithered \cup {"none"}
    /\ rng = rng_step(rng_step(seed))
    /\ rng # seed

\* C12 as stated: an iterator of fewer or more than PIGMENT_LEN elements is
\* reported as an error, and only one of exactly PIGMENT_LEN elements gives a
\* Pigment, of those elements in order.
C12_LengthValidatedAtBoundary ==
    op = "from_iter" =>
        /\ (Len(a) # PIGMENT_LEN => (panicked /\ out = NoTriplet))
        /\ (Len(a) = PIGMENT_LEN =>
               (~panicked /\ out = [i \in 1 .. PIGMENT_LEN |-> RInt(a[i])]))

\* C12 amended: an iterator of fewer than PIGMENT_LEN elements panics and
\* builds no Pigment; one of PIGMENT_LEN or more elements gives the Pigment of
\* its first PIGMENT_LEN elements in order, the rest being ignored; no Pigment
\* has fewer than PIGMENT_LEN components.
C12_FromIterTakesFirstK ==
    op = "from_iter" =>
        /\ (Len(a) < PIGMENT_LEN => (panicked /\ out = NoTriplet))
        /\ (Len(a) >= PIGMENT_LEN =>
               (~panicked /\ out = [i \in 1 .. PIGMENT_LEN |-> RInt(a[i])]))
        /\ (~panicked => Len(out) = PIGMENT_LEN)

\* C12 witness: an iterator longer than PIGMENT_LEN gave a Pigment of its
\* first PIGMENT_LEN elements.
C12_Witness ==
    /\ op = "from_iter"
    /\ Len(a) > PIGMENT_LEN
    /\ ~panicked
    /\ Len(out) = PIGMENT_LEN
    /\ out[PIGMENT_LEN] = RInt(a[PIGMENT_LEN])

====
